---- MODULE Spec2Model ----
\* A model of the layered network emulator: the event bus (a binary heap of
\* timed events run by EventBus.Run), delay-bearing links, the hosts' layer
\* stacks, the learning switch and the router.
EXTENDS Integers, Sequences, FiniteSets, TLC

\* ---------------------------------------------------------------- bounds
\* Free clock ticks stop at MaxTime; fire-times may exceed it by the delays.
MaxTime == 1
\* Packets injected with Host.SendPacket before the run.
MaxSends == 2
\* Link delays range over 0..MaxDelay.
MaxDelay == 1

\* ---------------------------------------------------------------- values
Nil == "nil"

Hosts == {"Host1", "Host2"}
Devices == Hosts \cup {"Switch1", "Router1"}

\* Addresses; "MX" and "IX" belong to no port and to no route.
MACs == {"M1", "M2", "MX"}
IPs == {"I1", "I2", "IX"}

Packet == [Data : {"hello"}, SrcIP : IPs, DstIP : IPs, SrcMAC : MACs, DstMAC : MACs]

\* The packets main hands to Host.SendPacket: their source fields are not
\* the addresses of main's hosts, so that stamping is visible.
InputPackets ==
    {p \in Packet : /\ p.SrcIP = "IX" /\ p.SrcMAC = "MX"
                    /\ <<p.DstMAC, p.DstIP>> \in
                         {<<"M2", "I2">>, <<"M1", "I1">>, <<"M2", "IX">>}}

\* Host1 sends any of them, Host2 the one addressed to Host1.
Sendable ==
    {hp \in {"Host1", "Host2"} \X InputPackets : hp[1] = "Host2" => hp[2].DstMAC = "M1"}

\* ---------------------------------------------------------------- layers
NetworkLayer(ip) == [Name |-> "Network", addr |-> ip]

DataLinkLayer(mac) == [Name |-> "DataLink", addr |-> mac]

NetworkLayerHandleOutgoing(nl, p) == [p EXCEPT !.SrcIP = nl.addr]

\* DataLinkLayer.HandleOutgoing without the assignment to p.SrcMAC.
DataLinkLayerHandleOutgoingNoStamp(dl, p) == p

DataLinkLayerHandleOutgoing(dl, p) == [p EXCEPT !.SrcMAC = dl.addr]

\* HandleIncoming returns the packet it was given; the verdict is the line
\* it logs ("received for me" / "dropping").
\* NetworkLayer.HandleIncoming that also overwrites the destination address.
NetworkLayerHandleIncomingRewrite(nl, p) ==
    [pkt |-> [p EXCEPT !.DstIP = nl.addr], layer |-> nl.Name,
     verdict |-> IF p.DstIP = nl.addr THEN "accept" ELSE "drop"]

NetworkLayerHandleIncoming(nl, p) ==
    [pkt |-> p, layer |-> nl.Name,
     verdict |-> IF p.DstIP = nl.addr THEN "accept" ELSE "drop"]

DataLinkLayerHandleIncoming(dl, p) ==
    [pkt |-> p, layer |-> dl.Name,
     verdict |-> IF p.DstMAC = dl.addr THEN "accept" ELSE "drop"]

HandleOutgoing(layer, p) ==
    IF layer.Name = "Network" THEN NetworkLayerHandleOutgoing(layer, p)
    ELSE DataLinkLayerHandleOutgoing(layer, p)

HandleIncoming(layer, p) ==
    IF layer.Name = "Network" THEN NetworkLayerHandleIncoming(layer, p)
    ELSE DataLinkLayerHandleIncoming(layer, p)

\* ---------------------------------------------------------------- event queue
\* EventQueue is a slice used through container/heap; Go index i is eq[i+1].
Less(eq, i, j) == eq[i + 1].Time < eq[j + 1].Time

Swap(eq, i, j) == [eq EXCEPT ![i + 1] = eq[j + 1], ![j + 1] = eq[i + 1]]

\* heap.up without the sift: the pushed element stays at the end.
upNoSift(eq, j) == eq

\* heap.up: sift the element at j towards the root while it is Less than its parent.
RECURSIVE up(_, _)
up(eq, j) ==
    LET i == IF j = 0 THEN 0 ELSE (j - 1) \div 2
    IN  IF i = j \/ ~Less(eq, j, i) THEN eq
        ELSE up(Swap(eq, i, j), i)

\* heap.down: sift the element at i down within eq[0..n-1].
RECURSIVE down(_, _, _)
down(eq, i, n) ==
    LET j1 == 2 * i + 1
        j2 == j1 + 1
        j  == IF j2 < n /\ Less(eq, j2, j1) THEN j2 ELSE j1
    IN  IF j1 >= n THEN eq
        ELSE IF ~Less(eq, j, i) THEN eq
        ELSE down(Swap(eq, i, j), j, n)

\* heap.Push: EventQueue.Push appends, then up from the last index.
HeapPush(eq, x) == up(Append(eq, x), Len(eq))

\* heap.Pop: swap root and last, down over the first n elements, then
\* EventQueue.Pop removes and returns the last element.
HeapPop(eq) ==
    LET n == Len(eq) - 1
        h == down(Swap(eq, 0, n), 0, n)
    IN  [event |-> h[n + 1], rest |-> SubSeq(h, 1, n)]

\* ---------------------------------------------------------------- state
VARIABLES
    Links,          \* network.Links: the registered links, in AddLink order
    ConnectedDev,   \* Host.ConnectedDev of every host (Nil: not set)
    Layers,         \* Host.Layers of every host, lowest layer first
    swLinks,        \* Switch1.Links: device -> link (Nil: no entry / nil link)
    MACTable,       \* Switch1.MACTable: learned address -> device
    Events,         \* eventBus.Events, the heap
    now,            \* the clock time.Now() reads
    pc,             \* "setup", "run" (inside EventBus.Run), "done", "panicked"
    nextId,         \* history: number of the next AddEvent call
    transmits,      \* history: the Link.Transmit calls that scheduled an event
    sends,          \* history: the Host.SendPacket calls made by main
    received,       \* history: the ReceivePacket invocations
    swCalls,        \* history: the Switch.SendPacket calls
    rtCalls         \* history: the Router.SendPacket calls

vars == <<Links, ConnectedDev, Layers, swLinks, MACTable, Events, now, pc,
          nextId, transmits, sends, received, swCalls, rtCalls>>

\* Switch1.Ports, the static port table, and Router1.Ports, the routing table.
Ports == [m \in {"M1", "M2"} |-> IF m = "M1" THEN "Host1" ELSE "Host2"]

RouterPorts == [i \in {"I1", "I2"} |-> IF i = "I2" THEN "Host2" ELSE "Switch1"]

\* The layer stack main gives a host: [DataLink(mac), Network(ip)].
HostStack(mac, ip) == <<DataLinkLayer(mac), NetworkLayer(ip)>>

\* ---------------------------------------------------------------- network
Link(from, to, delay) == [From |-> from, To |-> to, Delay |-> delay]

\* The nil *Link.
NilLink == [From |-> Nil, To |-> Nil, Delay |-> 0]

AddLink(links, from, to, delay) == Append(links, Link(from, to, delay))

\* GetLink that matches on the source device alone.
GetLinkAnyTarget(links, from, to) ==
    LET hits == {i \in 1..Len(links) : links[i].From = from}
    IN  IF hits = {} THEN NilLink
        ELSE links[CHOOSE i \in hits : \A k \in hits : i <= k]

\* GetLink matching a link in either direction.
GetLinkEitherDirection(links, from, to) ==
    LET hits == {i \in 1..Len(links) :
                    \/ links[i].From = from /\ links[i].To = to
                    \/ links[i].From = to /\ links[i].To = from}
    IN  IF hits = {} THEN NilLink
        ELSE links[CHOOSE i \in hits : \A k \in hits : i <= k]

\* GetLink: the first registered link with exactly this From and To, else nil.
GetLink(links, from, to) ==
    LET hits == {i \in 1..Len(links) : links[i].From = from /\ links[i].To = to}
    IN  IF hits = {} THEN NilLink
        ELSE links[CHOOSE i \in hits : \A k \in hits : i <= k]

\* ---------------------------------------------------------------- event bus
\* The running state a handler threads through its calls: st has the fields
\* Events, now, MACTable, nextId, transmits, received, swCalls, rtCalls, tx
\* (the events scheduled by the current SendPacket call) and panicked.
\* ctx describes the call: orig (number of the Host.SendPacket the packet
\* comes from), from (the device that handed the packet over), id and time
\* of the event being run (0 when called directly), via, and the two choices
\* the run-time makes: ord (iteration order of the Ports map) and step (how
\* far the clock moves between two AddEvent calls of one handler).

\* AddEvent that leaves the delay out of the fire-time.
AddEventNoDelay(st, delay, handler) ==
    LET event == [Time |-> st.now, To |-> handler.To, Pkt |-> handler.Pkt,
                  id |-> st.nextId, From |-> handler.From, orig |-> handler.orig]
    IN  [st EXCEPT !.Events = HeapPush(@, event),
                   !.nextId = @ + 1,
                   !.transmits = Append(@,
                        [id |-> st.nextId, from |-> handler.From, to |-> handler.To,
                         pkt |-> handler.Pkt, at |-> st.now, delay |-> delay,
                         time |-> st.now, orig |-> handler.orig]),
                   !.tx = Append(@, [To |-> handler.To, id |-> st.nextId])]

\* AddEvent: fire-time = time.Now() + delay, then heap.Push.
AddEvent(st, delay, handler) ==
    LET event == [Time |-> st.now + delay, To |-> handler.To, Pkt |-> handler.Pkt,
                  id |-> st.nextId, From |-> handler.From, orig |-> handler.orig]
    IN  [st EXCEPT !.Events = HeapPush(@, event),
                   !.nextId = @ + 1,
                   !.transmits = Append(@,
                        [id |-> st.nextId, from |-> handler.From, to |-> handler.To,
                         pkt |-> handler.Pkt, at |-> st.now, delay |-> delay,
                         time |-> st.now + delay, orig |-> handler.orig]),
                   !.tx = Append(@, [To |-> handler.To, id |-> st.nextId])]

\* Link.Transmit: on a nil link the first field access panics.
Transmit(l, p, st, ctx) ==
    IF l = NilLink THEN [st EXCEPT !.panicked = TRUE]
    ELSE AddEvent(st, l.Delay,
                  [To |-> l.To, Pkt |-> p, From |-> l.From, orig |-> ctx.orig])

\* ---------------------------------------------------------------- host
\* The loop of Host.SendPacket: layers i, i-1, ..., 1 (highest first).
RECURSIVE Encapsulate(_, _, _)
Encapsulate(layers, i, p) ==
    IF i = 0 THEN p
    ELSE Encapsulate(layers, i - 1, HandleOutgoing(layers[i], p))

\* The HandleOutgoing invocations of the loop of Host.SendPacket, in the order
\* they are made: layer i first, then i-1, ..., each handed the previous result.
RECURSIVE EncapsulateCalls(_, _, _)
EncapsulateCalls(layers, i, p) ==
    IF i = 0 THEN <<>>
    ELSE LET q == HandleOutgoing(layers[i], p)
         IN  <<[layer |-> i, inp |-> p, out |-> q]>> \o EncapsulateCalls(layers, i - 1, q)

\* The loop of Host.ReceivePacket: layers i, i+1, ... (lowest first); every
\* layer is handed the packet the previous one returned. The result lists the
\* HandleIncoming invocations.
RECURSIVE Decapsulate(_, _, _)
Decapsulate(layers, i, p) ==
    IF i > Len(layers) THEN <<>>
    ELSE LET r == HandleIncoming(layers[i], p)
         IN  <<r>> \o Decapsulate(layers, i + 1, r.pkt)

HostSendPacket(h, p, st, ctx) ==
    LET out == Encapsulate(Layers[h], Len(Layers[h]), p)
        link == GetLink(Links, h, ConnectedDev[h])
    IN  IF ConnectedDev[h] # Nil
        THEN IF link # NilLink THEN Transmit(link, out, st, ctx) ELSE st
        ELSE st

Entry(dev, p, st, ctx, layers) ==
    [dev |-> dev, pkt |-> p, at |-> st.now, id |-> ctx.id, time |-> ctx.time,
     orig |-> ctx.orig, from |-> ctx.from, via |-> ctx.via, layers |-> layers]

HostReceivePacket(h, p, st, ctx) ==
    [st EXCEPT !.received = Append(@, Entry(h, p, st, ctx, Decapsulate(Layers[h], 1, p)))]

\* ---------------------------------------------------------------- switch
\* Time that passes between two statements of a handler.
Elapse(st, step) == [st EXCEPT !.now = IF @ < MaxTime THEN @ + step ELSE @]

\* The broadcast loop over s.Ports in the iteration order ord; a panic ends it.
RECURSIVE Broadcast(_, _, _, _, _)
Broadcast(ord, i, p, st, ctx) ==
    IF i > Len(ord) \/ st.panicked THEN st
    ELSE IF ord[i] # p.SrcMAC
         THEN Broadcast(ord, i + 1, p,
                        Elapse(Transmit(swLinks[Ports[ord[i]]], p, st, ctx), ctx.step), ctx)
         ELSE Broadcast(ord, i + 1, p, st, ctx)

\* Switch.SendPacket's learning step on a table emptied first.
LearnForget(table, p) ==
    IF p.SrcMAC \in DOMAIN Ports
    THEN [m \in {p.SrcMAC} |-> Ports[p.SrcMAC]]
    ELSE table

\* Switch.SendPacket's learning step keyed by the destination address.
LearnDestination(table, p) ==
    IF p.SrcMAC \in DOMAIN Ports
    THEN [m \in DOMAIN table \cup {p.DstMAC} |->
            IF m = p.DstMAC THEN Ports[p.SrcMAC] ELSE table[m]]
    ELSE table

Learn(table, p) ==
    IF p.SrcMAC \in DOMAIN Ports
    THEN [m \in DOMAIN table \cup {p.SrcMAC} |->
            IF m = p.SrcMAC THEN Ports[p.SrcMAC] ELSE table[m]]
    ELSE table

Forward(p, st, ctx) ==
    IF p.DstMAC \in DOMAIN st.MACTable
    THEN Transmit(swLinks[st.MACTable[p.DstMAC]], p, st, ctx)
    ELSE Broadcast(ctx.ord, 1, p, st, ctx)

SwitchSendPacket(p, st, ctx) ==
    LET s1 == [st EXCEPT !.MACTable = Learn(@, p), !.tx = <<>>]
        s2 == Forward(p, s1, ctx)
    IN  [s2 EXCEPT !.swCalls = Append(@,
            [pkt |-> p, ingress |-> ctx.from, orig |-> ctx.orig,
             before |-> st.MACTable, after |-> s2.MACTable,
             tx |-> s2.tx, panicked |-> s2.panicked])]

SwitchReceivePacket(p, st, ctx) ==
    SwitchSendPacket(p, [st EXCEPT !.received = Append(@, Entry("Switch1", p, st, ctx, <<>>))], ctx)

\* ---------------------------------------------------------------- router
RECURSIVE ReceivePacket(_, _, _, _)

\* Router.SendPacket with a default route: a packet without a route goes to Host2.
RouterSendPacketDefaultRoute(p, st, ctx) ==
    LET hop == IF p.DstIP \in DOMAIN RouterPorts THEN RouterPorts[p.DstIP] ELSE "Host2"
        s1 == ReceivePacket(hop, p, st,
                        [ctx EXCEPT !.from = "Router1", !.via = "direct", !.id = 0])
    IN  [s1 EXCEPT !.rtCalls = Append(@,
            [pkt |-> p, hop |-> hop, orig |-> ctx.orig,
             recvBefore |-> Len(st.received), recvAfter |-> Len(s1.received),
             idBefore |-> st.nextId, idAfter |-> s1.nextId])]

RouterSendPacket(p, st, ctx) ==
    LET hop == IF p.DstIP \in DOMAIN RouterPorts THEN RouterPorts[p.DstIP] ELSE Nil
        s1 == IF hop # Nil
              THEN ReceivePacket(hop, p, st,
                        [ctx EXCEPT !.from = "Router1", !.via = "direct", !.id = 0])
              ELSE st
    IN  [s1 EXCEPT !.rtCalls = Append(@,
            [pkt |-> p, hop |-> hop, orig |-> ctx.orig,
             recvBefore |-> Len(st.received), recvAfter |-> Len(s1.received),
             idBefore |-> st.nextId, idAfter |-> s1.nextId])]

RouterReceivePacket(p, st, ctx) ==
    RouterSendPacket(p, [st EXCEPT !.received = Append(@, Entry("Router1", p, st, ctx, <<>>))], ctx)

\* Device.ReceivePacket, dispatched on the device.
ReceivePacket(dev, p, st, ctx) ==
    IF dev \in Hosts THEN HostReceivePacket(dev, p, st, ctx)
    ELSE IF dev = "Switch1" THEN SwitchReceivePacket(p, st, ctx)
    ELSE RouterReceivePacket(p, st, ctx)

\* ---------------------------------------------------------------- topology
\* The links a topology may register, in AddLink order; main registers the
\* first three.
CandidateLinks ==
    << <<"Host1", "Switch1">>, <<"Switch1", "Host1">>, <<"Switch1", "Host2">>,
       <<"Host2", "Switch1">>, <<"Host1", "Router1">> >>

\* The topology built by AddLink calls: the links out of Host1 have delay dA,
\* the others dB.
RECURSIVE BuildLinks(_, _, _, _)
BuildLinks(i, missing, dA, dB) ==
    IF i = 0 THEN <<>>
    ELSE LET rest == BuildLinks(i - 1, missing, dA, dB)
             c == CandidateLinks[i]
         IN  IF i \in missing THEN rest
             ELSE AddLink(rest, c[1], c[2], IF c[1] = "Host1" THEN dA ELSE dB)

\* The iteration orders of the Ports map.
Orders ==
    {o \in [1..Cardinality(DOMAIN Ports) -> DOMAIN Ports] :
        \A i, j \in DOMAIN o : i # j => o[i] # o[j]}

\* A host's handler neither iterates over Ports nor reads the clock twice:
\* one choice stands for all.
FirstOrder == CHOOSE o \in Orders : TRUE

\* The topologies main may set up: Host1 unconnected, on the switch or on the
\* router, its address a key of Ports or not, at most one link never added.
\* Two different delays are tried on the complete topologies with main's
\* addresses; a link is left out only with Host1 connected, and with Host1 on
\* the router only its own link.
Init ==
    \E dA \in 0..MaxDelay, dB \in 0..MaxDelay,
       missing \in {{}} \cup {{i} : i \in 1..Len(CandidateLinks)},
       c1 \in {Nil, "Switch1", "Router1"}, mac1 \in {"M1", "MX"} :
        /\ mac1 = "MX" => c1 = "Switch1"
        /\ dB \in {0, dA}
        /\ \A i \in missing : CandidateLinks[i][1] = "Host1" => CandidateLinks[i][2] = c1
        /\ (missing # {} \/ mac1 = "MX") => dA = dB
        /\ missing # {} => c1 # Nil
        /\ c1 = "Router1" => \A i \in missing : CandidateLinks[i][1] = "Host1"
        /\ Links = BuildLinks(Len(CandidateLinks), missing, dA, dB)
        /\ ConnectedDev = [h \in Hosts |-> IF h = "Host1" THEN c1 ELSE "Switch1"]
        /\ Layers = [h \in Hosts |->
                IF h = "Host1" THEN HostStack(mac1, "I1") ELSE HostStack("M2", "I2")]
        /\ swLinks = [d \in Devices |->
                IF d \in Hosts
                THEN GetLink(BuildLinks(Len(CandidateLinks), missing, dA, dB), "Switch1", d)
                ELSE NilLink]
        /\ MACTable = [m \in {} |-> Nil]
        /\ Events = <<>>
        /\ now = 0
        /\ pc = "setup"
        /\ nextId = 1
        /\ transmits = <<>>
        /\ sends = <<>>
        /\ received = <<>>
        /\ swCalls = <<>>
        /\ rtCalls = <<>>

\* ---------------------------------------------------------------- actions
State ==
    [Events |-> Events, now |-> now, MACTable |-> MACTable, nextId |-> nextId,
     transmits |-> transmits, received |-> received, swCalls |-> swCalls, rtCalls |-> rtCalls,
     tx |-> <<>>, panicked |-> FALSE]

Commit(st) ==
    /\ Events' = st.Events
    /\ now' = st.now
    /\ MACTable' = st.MACTable
    /\ nextId' = st.nextId
    /\ transmits' = st.transmits
    /\ received' = st.received
    /\ swCalls' = st.swCalls
    /\ rtCalls' = st.rtCalls

\* main: host.SendPacket(packet), before the event bus runs.
Send(h, p) ==
    /\ pc = "setup"
    /\ Len(sends) < MaxSends
    /\ LET ctx == [orig |-> Len(sends) + 1, from |-> Nil, id |-> 0, time |-> 0,
                   via |-> "main", ord |-> <<>>, step |-> 0]
           st == HostSendPacket(h, p, State, ctx)
       IN  /\ Commit(st)
           /\ sends' = Append(sends,
                [host |-> h, inp |-> p, out |-> Encapsulate(Layers[h], Len(Layers[h]), p),
                 at |-> now, tx |-> st.tx, before |-> Events, after |-> st.Events,
                 panicked |-> st.panicked,
                 calls |-> EncapsulateCalls(Layers[h], Len(Layers[h]), p)])
    /\ UNCHANGED <<Links, ConnectedDev, Layers, swLinks, pc>>

\* main: eventBus.Run() is entered; with an empty queue it returns at once.
StartRun ==
    /\ pc = "setup"
    /\ pc' = IF Len(Events) > 0 THEN "run" ELSE "done"
    /\ UNCHANGED <<Links, ConnectedDev, Layers, swLinks, MACTable, Events, now,
                   nextId, transmits, sends, received, swCalls, rtCalls>>

\* One iteration of the loop of EventBus.Run: heap.Pop, sleep until the
\* event's time when it lies ahead, then the handler, l.To.ReceivePacket(p),
\* then the loop test: Run returns when the queue is empty.
Run ==
    /\ pc = "run"
    /\ Len(Events) > 0
    /\ \E ord \in Orders, step \in 0..1 :
        LET popped == HeapPop(Events)
            event == popped.event
            woke == IF now < event.Time THEN event.Time ELSE now
            ctx == [orig |-> event.orig, from |-> event.From, id |-> event.id,
                    time |-> event.Time, via |-> "event", ord |-> ord, step |-> step]
            st == ReceivePacket(event.To, event.Pkt,
                                [State EXCEPT !.Events = popped.rest, !.now = woke], ctx)
        IN  /\ event.To \in Hosts => ord = FirstOrder /\ step = 0
            /\ Commit(st)
            /\ pc' = IF st.panicked THEN "panicked"
                     ELSE IF Len(st.Events) > 0 THEN "run" ELSE "done"
    /\ UNCHANGED <<Links, ConnectedDev, Layers, swLinks, sends>>

\* The wall clock moves on; nothing reads it before the first event is scheduled.
ClockTick ==
    /\ pc \in {"setup", "run"}
    /\ Len(Events) > 0
    /\ now < MaxTime
    /\ now' = now + 1
    /\ UNCHANGED <<Links, ConnectedDev, Layers, swLinks, MACTable, Events, pc,
                   nextId, transmits, sends, received, swCalls, rtCalls>>

Next ==
    \/ \E hp \in Sendable : Send(hp[1], hp[2])
    \/ StartRun
    \/ Run
    \/ ClockTick

Spec == Init /\ [][Next]_vars

\* ---------------------------------------------------------------- properties
\* The ReceivePacket invocations made by event handlers, in execution order.
Fired == SelectSeq(received, LAMBDA r : r.via = "event")

Finished == pc \in {"done", "panicked"}

\* How often the handler of the event scheduled by transmit call k has run.
Deliveries(k) == Cardinality({i \in DOMAIN Fired : Fired[i].id = transmits[k].id})

\* C1: every Link.Transmit(p) made at time t on a link (A -> B, delay d) leads
\* to exactly one invocation of B.ReceivePacket during EventBus.Run, with the
\* packet p, at a time >= t + d: no handler runs for anything but a transmit,
\* none runs early or twice, and when the run is over none is missing.
C1_TransmitDeliveredExactlyOnce ==
    /\ \A i \in DOMAIN Fired :
         \E k \in DOMAIN transmits :
            /\ transmits[k].id = Fired[i].id
            /\ transmits[k].to = Fired[i].dev
            /\ transmits[k].pkt = Fired[i].pkt
            /\ Fired[i].at >= transmits[k].at + transmits[k].delay
    /\ \A k \in DOMAIN transmits : Deliveries(k) <= 1
    /\ Finished => \A k \in DOMAIN transmits : Deliveries(k) = 1

\* C2: over a whole EventBus.Run, events scheduled by handlers included, the
\* fire-times of the events executed never decrease; when the fire-times of
\* all scheduled events differ, they increase strictly.
C2_FireTimesNonDecreasing ==
    /\ \A i, j \in DOMAIN Fired : i < j => Fired[i].time <= Fired[j].time
    /\ (\A k, l \in DOMAIN transmits : k # l => transmits[k].time # transmits[l].time)
         => \A i, j \in DOMAIN Fired : i < j => Fired[i].time < Fired[j].time

\* C2 witness: three events have run, one of them scheduled by a handler, and
\* one that was scheduled later than another has run before it.
C2_Witness ==
    /\ pc = "done"
    /\ Len(Fired) >= 3
    /\ \E i \in DOMAIN Fired : Fired[i].from = "Switch1"
    /\ \E i, j \in DOMAIN Fired :
         i < j /\ Fired[i].id > Fired[j].id /\ Fired[i].time < Fired[j].time

\* C3: events with the same fire-time run in the order AddEvent inserted them.
C3_TiesRunInInsertionOrder ==
    \A i, j \in DOMAIN Fired :
        (i < j /\ Fired[i].time = Fired[j].time) => Fired[i].id < Fired[j].id

\* The ReceivePacket invocations on hosts.
HostEntries == SelectSeq(received, LAMBDA r : r.dev \in Hosts)

\* C4: a host's layers are walked lowest to highest and the walk stops at the
\* first layer whose address check fails: no HandleIncoming is invoked after
\* one that reported a drop.
C4_MismatchStopsProcessing ==
    \A i \in DOMAIN HostEntries :
        LET walk == HostEntries[i].layers
        IN  \A k \in DOMAIN walk : walk[k].verdict = "drop" => k = Len(walk)

\* The devices a Switch.SendPacket call transmitted to, one entry per transmit.
TxTo(call) == [k \in DOMAIN call.tx |-> call.tx[k].To]

\* C5: once the switch has processed a frame whose source address X is a key
\* of the port table, for device P, every later frame with destination X is
\* transmitted on exactly one link, the link to P.
C5_LearnedDestinationIsUnicast ==
    \A i, j \in DOMAIN swCalls :
        (/\ i < j
         /\ swCalls[i].pkt.SrcMAC \in DOMAIN Ports
         /\ swCalls[j].pkt.DstMAC = swCalls[i].pkt.SrcMAC)
        => TxTo(swCalls[j]) = <<Ports[swCalls[i].pkt.SrcMAC]>>

\* The devices of the static port table.
PortDevices == {Ports[m] : m \in DOMAIN Ports}

\* C6: a frame whose destination is not in the learned table is transmitted
\* exactly once to every device of the port table except the device it came
\* in from, and not at all to that device, whatever its declared source.
\* Stated for the calls that returned, so that a panic on a nil link is not
\* what refutes it.
C6_UnknownDestinationFloodsAllButIngress ==
    \A i \in DOMAIN swCalls :
        LET call == swCalls[i]
            to == TxTo(call)
        IN  (call.pkt.DstMAC \notin DOMAIN call.after /\ ~call.panicked)
            => \A d \in PortDevices :
                  Cardinality({k \in DOMAIN to : to[k] = d})
                    = IF d = call.ingress THEN 0 ELSE 1

\* Whether a link from -> to was registered with AddLink.
Registered(from, to) ==
    \E i \in DOMAIN Links : Links[i].From = from /\ Links[i].To = to

\* The topology of main: Host1 -> Switch1 -> Host2 with the hosts' stacks of
\* main, main's three links registered, and one delay d for every link.
MainTopology(d) ==
    /\ ConnectedDev["Host1"] = "Switch1"
    /\ Layers["Host1"] = HostStack("M1", "I1")
    /\ Layers["Host2"] = HostStack("M2", "I2")
    /\ Registered("Host1", "Switch1")
    /\ Registered("Switch1", "Host1")
    /\ Registered("Switch1", "Host2")
    /\ \A i \in DOMAIN Links : Links[i].Delay = d

\* The invocations of Host2.ReceivePacket for the packet of main's k-th send.
AtHost2(k) == {i \in DOMAIN received : received[i].dev = "Host2" /\ received[i].orig = k}

ToHost2(k) ==
    /\ sends[k].host = "Host1"
    /\ sends[k].inp.DstMAC = "M2"
    /\ sends[k].inp.DstIP = "I2"

\* C7: in main's topology with link delay d, a packet Host1 sends to Host2 is
\* received by Host2 exactly once, with Host1's physical and logical address
\* as its source fields, no earlier than 2 * d after the send.
C7_EndToEnd ==
    \A d \in 0..MaxDelay :
        MainTopology(d) =>
            /\ pc # "panicked"
            /\ \A k \in DOMAIN sends :
                 ToHost2(k) =>
                    /\ \A i \in AtHost2(k) :
                          /\ received[i].pkt.SrcMAC = "M1"
                          /\ received[i].pkt.SrcIP = "I1"
                          /\ received[i].pkt.Data = sends[k].inp.Data
                          /\ received[i].at >= sends[k].at + 2 * d
                    /\ Cardinality(AtHost2(k)) <= 1
                    /\ pc = "done" => Cardinality(AtHost2(k)) = 1

\* C7 witness: main's run is over with a positive link delay; the switch had
\* learned nothing when it forwarded Host1's packet, and Host2 has it.
C7_Witness ==
    /\ pc = "done"
    /\ \E d \in 1..MaxDelay : MainTopology(d)
    /\ \E k \in DOMAIN sends : ToHost2(k) /\ AtHost2(k) # {}
    /\ Len(swCalls) = 1
    /\ swCalls[1].before = <<>>
    /\ swCalls[1].ingress = "Host1"

\* C8: a failing handler does not abort EventBus.Run: whenever the run is
\* over, every event that was pending has been fired.
C8_FailureIsolation == Finished => Len(Events) = 0

\* C9: Host.SendPacket schedules exactly one delivery event, to the next hop
\* and with the encapsulated packet, when a next hop is configured and the
\* link to it is registered; otherwise the queue is left as it was, no
\* ReceivePacket is ever invoked for the packet, and the call returns.
C9_HostSendNeedsLink ==
    \A k \in DOMAIN sends :
        LET s == sends[k]
            hop == ConnectedDev[s.host]
        IN  /\ ~s.panicked
            /\ IF hop # Nil /\ Registered(s.host, hop)
               THEN /\ Len(s.tx) = 1
                    /\ s.tx[1].To = hop
                    /\ Len(s.after) = Len(s.before) + 1
                    /\ \E e \in DOMAIN s.after :
                          /\ s.after[e].id = s.tx[1].id
                          /\ s.after[e].To = hop
                          /\ s.after[e].Pkt = s.out
               ELSE /\ s.tx = <<>>
                    /\ s.after = s.before
                    /\ \A i \in DOMAIN received : received[i].orig # k

\* C9 witness: the run is over after a send that found its link and a send
\* with a next hop but no link to it.
C9_Witness ==
    /\ pc = "done"
    /\ \E k, l \in DOMAIN sends :
         /\ Len(sends[k].tx) = 1
         /\ ConnectedDev[sends[l].host] # Nil
         /\ ~Registered(sends[l].host, ConnectedDev[sends[l].host])
         /\ sends[l].tx = <<>>

\* C10: a router that has no route for the packet's destination forwards
\* nothing: no ReceivePacket call, no event scheduled, and the call returns.
C10_NoRouteForwardsNothing ==
    /\ \A i \in DOMAIN rtCalls :
         rtCalls[i].pkt.DstIP \notin DOMAIN RouterPorts
            => /\ rtCalls[i].recvAfter = rtCalls[i].recvBefore
               /\ rtCalls[i].idAfter = rtCalls[i].idBefore
    /\ \A i \in DOMAIN received :
         (received[i].from = "Router1")
            => \E c \in DOMAIN rtCalls :
                  /\ rtCalls[c].pkt = received[i].pkt
                  /\ rtCalls[c].pkt.DstIP \in DOMAIN RouterPorts

\* C10 witness: the router has processed a packet without a route and one
\* with a route, and the run went on to its end.
C10_Witness ==
    /\ pc = "done"
    /\ \E i, j \in DOMAIN rtCalls :
         /\ rtCalls[i].pkt.DstIP \notin DOMAIN RouterPorts
         /\ rtCalls[j].pkt.DstIP \in DOMAIN RouterPorts

\* C11: a router forwards through the Link / EventBus mechanism: for a packet
\* with a route, no ReceivePacket is invoked inside the router's own call;
\* the call schedules one event, and the next hop receives from an event.
C11_RouterForwardsThroughLink ==
    /\ \A c \in DOMAIN rtCalls :
         rtCalls[c].pkt.DstIP \in DOMAIN RouterPorts
            => /\ rtCalls[c].recvAfter = rtCalls[c].recvBefore
               /\ rtCalls[c].idAfter = rtCalls[c].idBefore + 1
    /\ \A i \in DOMAIN received :
         received[i].from = "Router1" => received[i].via = "event"

\* The packets a send of main handed to a link.
LinkPackets(s) ==
    {transmits[i].pkt : i \in {k \in DOMAIN transmits :
                                 \E j \in DOMAIN s.tx : s.tx[j].id = transmits[k].id}}

\* C12: Host.SendPacket invokes HandleOutgoing on its layers from the highest
\* to the lowest, each on the previous result; with the stack
\* [DataLink(M), Network(I)] the packet handed to the link has SrcMAC = M and
\* SrcIP = I whatever the input's source fields were, and Data, DstIP and
\* DstMAC are the input's.
C12_EncapsulationHighestToLowest ==
    \A n \in DOMAIN sends :
        LET s == sends[n]
            L == Layers[s.host]
        IN  /\ Len(s.calls) = Len(L)
            /\ \A k \in DOMAIN s.calls :
                 /\ s.calls[k].layer = Len(L) + 1 - k
                 /\ s.calls[k].inp = IF k = 1 THEN s.inp ELSE s.calls[k - 1].out
            /\ (Len(L) = 2 /\ L[1].Name = "DataLink" /\ L[2].Name = "Network")
                 => \A q \in LinkPackets(s) :
                      /\ q.SrcMAC = L[1].addr
                      /\ q.SrcIP = L[2].addr
                      /\ q.Data = s.inp.Data
                      /\ q.DstIP = s.inp.DstIP
                      /\ q.DstMAC = s.inp.DstMAC

\* A send whose input carried other source fields reached a link.
C12_Witness ==
    \E n \in DOMAIN sends :
        /\ LinkPackets(sends[n]) # {}
        /\ sends[n].inp.SrcMAC # Layers[sends[n].host][1].addr
        /\ sends[n].inp.SrcIP # Layers[sends[n].host][2].addr
        /\ Layers[sends[n].host][1].Name = "DataLink"

\* C13: a link does not reorder: of two packets transmitted on the same link
\* (same From and To), the one transmitted first is received first, also when
\* both events carry the same fire-time and other events with that fire-time
\* are queued.
C13_NoReorderingOnALink ==
    \A i, j \in DOMAIN Fired :
        (i < j /\ Fired[i].from = Fired[j].from /\ Fired[i].dev = Fired[j].dev)
            => Fired[i].id < Fired[j].id

\* C14: every key of the switch's learned table is the declared source address
\* of a frame the switch has already processed and is mapped to the device the
\* port table holds for that address; the table has no other entry.
C14_LearnedFromDeclaredSource ==
    \A m \in DOMAIN MACTable :
        /\ \E c \in DOMAIN swCalls : swCalls[c].pkt.SrcMAC = m
        /\ m \in DOMAIN Ports
        /\ MACTable[m] = Ports[m]

\* The switch has learned both ports.
C14_Witness == DOMAIN MACTable = {"M1", "M2"} /\ Len(swCalls) >= 2

\* The packets a switch call handed to links.
SwitchPackets(call) ==
    {transmits[i].pkt : i \in {k \in DOMAIN transmits :
                                 \E j \in DOMAIN call.tx : call.tx[j].id = transmits[k].id}}

\* C15: NetworkLayer.HandleOutgoing changes no field but SrcIP and
\* DataLinkLayer.HandleOutgoing no field but SrcMAC; HandleIncoming of both
\* layers, Link.Transmit, the switch's forwarding and the router's forwarding
\* deliver a packet whose five fields equal those of the packet they were given.
C15_OnlyOwnSourceFieldChanges ==
    /\ \A n \in DOMAIN sends : \A k \in DOMAIN sends[n].calls :
         LET c == sends[n].calls[k]
         IN  IF Layers[sends[n].host][c.layer].Name = "Network"
             THEN c.out = [c.inp EXCEPT !.SrcIP = c.out.SrcIP]
             ELSE c.out = [c.inp EXCEPT !.SrcMAC = c.out.SrcMAC]
    /\ \A i \in DOMAIN received :
         /\ \A k \in DOMAIN received[i].layers :
              received[i].layers[k].pkt = received[i].pkt
         /\ received[i].via = "event"
              => /\ received[i].id \in DOMAIN transmits
                 /\ transmits[received[i].id].id = received[i].id
                 /\ transmits[received[i].id].pkt = received[i].pkt
    /\ \A c \in DOMAIN swCalls : \A q \in SwitchPackets(swCalls[c]) : q = swCalls[c].pkt
    /\ \A c \in DOMAIN rtCalls :
         rtCalls[c].hop # Nil
            => /\ rtCalls[c].recvAfter > rtCalls[c].recvBefore
               /\ received[rtCalls[c].recvBefore + 1].dev = rtCalls[c].hop
               /\ received[rtCalls[c].recvBefore + 1].pkt = rtCalls[c].pkt

\* A stamped packet has crossed a link and the switch and been taken through
\* both layers of a host, and the router has forwarded one to its next hop.
C15_Witness ==
    /\ \E n \in DOMAIN sends : sends[n].out # sends[n].inp
    /\ \E i \in DOMAIN received :
         /\ received[i].dev \in Hosts
         /\ received[i].from = "Switch1"
         /\ Len(received[i].layers) = 2
    /\ \E c \in DOMAIN rtCalls : rtCalls[c].hop # Nil

\* C16: GetLink(from, to) returns a registered link whose From is exactly from
\* and whose To is exactly to when one was added, and nil otherwise, for any
\* pair of devices including unregistered ones; a link A -> B does not answer
\* a lookup of B -> A. GetLink is called by main's set-up and by
\* Host.SendPacket, both before the run: the lookups are checked there.
C16_GetLinkExactPair ==
    pc = "setup" =>
    \A from, to \in Devices \cup {Nil} :
        LET l == GetLink(Links, from, to)
        IN  IF \E i \in DOMAIN Links : Links[i].From = from /\ Links[i].To = to
            THEN /\ l # NilLink
                 /\ l.From = from
                 /\ l.To = to
                 /\ \E i \in DOMAIN Links : Links[i] = l
            ELSE l = NilLink

\* Switch1 -> Host1 is registered, Host1 -> Switch1 is not, and Host1's send
\* looked its link to Switch1 up and found none.
C16_Witness ==
    /\ GetLink(Links, "Switch1", "Host1") # NilLink
    /\ GetLink(Links, "Host1", "Switch1") = NilLink
    /\ ConnectedDev["Host1"] = "Switch1"
    /\ \E n \in DOMAIN sends :
         sends[n].host = "Host1" /\ sends[n].tx = <<>> /\ ~sends[n].panicked

\* A second run of main on the same topology with the same injected packets,
\* in which the clock stands still and every iteration over Ports takes the
\* order FirstOrder: the state before the first send, ...
FreshState ==
    [Events |-> <<>>, now |-> 0, MACTable |-> [m \in {} |-> Nil], nextId |-> 1,
     transmits |-> <<>>, received |-> <<>>, swCalls |-> <<>>, rtCalls |-> <<>>,
     tx |-> <<>>, panicked |-> FALSE]

\* ... the host.SendPacket calls n, n+1, ... of main, ...
RECURSIVE ReplaySends(_, _)
ReplaySends(n, st) ==
    IF n > Len(sends) THEN st
    ELSE ReplaySends(n + 1,
            HostSendPacket(sends[n].host, sends[n].inp, [st EXCEPT !.tx = <<>>],
                [orig |-> n, from |-> Nil, id |-> 0, time |-> 0,
                 via |-> "main", ord |-> <<>>, step |-> 0]))

\* ... and the loop of EventBus.Run until the queue is empty or a handler panics.
RECURSIVE RunToEnd(_)
RunToEnd(st) ==
    IF st.panicked \/ Len(st.Events) = 0 THEN st
    ELSE LET popped == HeapPop(st.Events)
             event == popped.event
             woke == IF st.now < event.Time THEN event.Time ELSE st.now
             ctx == [orig |-> event.orig, from |-> event.From, id |-> event.id,
                     time |-> event.Time, via |-> "event", ord |-> FirstOrder, step |-> 0]
         IN  RunToEnd(ReceivePacket(event.To, event.Pkt,
                        [st EXCEPT !.Events = popped.rest, !.now = woke, !.tx = <<>>], ctx))

ReferenceRun == RunToEnd(ReplaySends(1, FreshState))

\* The deliveries of a run: receiving device and packet of every ReceivePacket.
DeliverySeq(rcv) == [i \in DOMAIN rcv |-> <<rcv[i].dev, rcv[i].pkt>>]

\* C17: for the same topology and the same sequence of injected packets every
\* run produces the same sequence of deliveries (device, packet), the order
\* of a broadcast's recipients included: a completed run's deliveries are
\* those of the reference run. Stated for a switch with all its links wired,
\* so that no run panics.
C17_SameDeliveriesInEveryRun ==
    (pc = "done" /\ \A h \in Hosts : swLinks[h] # NilLink)
        => DeliverySeq(received) = DeliverySeq(ReferenceRun.received)

\* C18: with switches forwarding only to hosts, EventBus.Run terminates with
\* an empty queue and by then the handler of every event ever scheduled has
\* run exactly once: while Run has not returned an event is queued for its
\* loop to pop, and once it is over it has returned normally, nothing is left
\* queued and every transmit has exactly one delivery.
C18_RunDrainsTheQueue ==
    /\ pc = "run" => Len(Events) > 0
    /\ Finished => /\ pc = "done"
                   /\ Events = <<>>
                   /\ Len(Fired) = Len(transmits)
                   /\ \A k \in DOMAIN transmits : Deliveries(k) = 1

\* C19: processing a frame changes the switch's state at most at the
\* learned-table entry for the frame's source address, and only when that
\* address is a key of the port table (Ports, which no action can change);
\* a frame with another source leaves the learned table as it was; the link
\* map stays what the topology set-up made it; no learned entry is ever
\* removed or mapped to another device, within a call or between calls.
C19_SwitchStateFrame ==
    /\ \A c \in DOMAIN swCalls :
         LET b == swCalls[c].before
             a == swCalls[c].after
             src == swCalls[c].pkt.SrcMAC
         IN  /\ DOMAIN a \subseteq DOMAIN b \cup {src}
             /\ \A m \in DOMAIN b : m \in DOMAIN a /\ a[m] = b[m]
             /\ src \notin DOMAIN Ports => a = b
             /\ b = IF c = 1 THEN [m \in {} |-> Nil] ELSE swCalls[c - 1].after
    /\ Len(swCalls) > 0 => MACTable = swCalls[Len(swCalls)].after
    /\ Len(swCalls) = 0 => MACTable = [m \in {} |-> Nil]
    /\ \A d \in Devices :
         swLinks[d] = IF d \in Hosts THEN GetLink(Links, "Switch1", d) ELSE NilLink

\* The switch has processed a frame that added a second entry to its table.
C19_Witness ==
    \E c \in DOMAIN swCalls :
        /\ Cardinality(DOMAIN swCalls[c].before) = 1
        /\ Cardinality(DOMAIN swCalls[c].after) = 2
        /\ swCalls[c].tx # <<>>

====
